---- MODULE Spec2Model ----
(***************************************************************************)
(* The ingestion / batching / scoring pipeline of app.py: the MQTT         *)
(* subscriber callback on_message, the queue message_queue, the            *)
(* accumulator thread batch_processor with its persistence, scoring and    *)
(* alert steps, and the module-level cache latest_data.                    *)
(*                                                                         *)
(* Python objects are modelled by reference: every payload that            *)
(* json.loads accepts becomes a new object, numbered in order of creation, *)
(* whose current value is heap[ref].  The queue, the batch, the alerts     *)
(* list and latest_data hold references, so an in-place change of a record *)
(* (insert_many adding "_id", record.update, publish_alert rewriting       *)
(* "_id") is seen through every one of them, as it is in the program.      *)
(***************************************************************************)
EXTENDS Integers, Sequences, FiniteSets, TLC

\* Number of MQTT messages delivered to on_message over a run.
MaxMsgs == 3

\* Number of required features a prediction request may lack (or all of them).
MaxMissing == 2

(***************************************************************************)
(* JSON values.  A dict is [dict |-> f] with f a function from keys to     *)
(* scalars; a bare JSON number is [num |-> n].  Scalars inside a dict are  *)
(* tagged: [n |-> 10] a number, [b |-> TRUE] a bool, [oid |-> k] a bson    *)
(* ObjectId, [s |-> k] the string str(ObjectId k).                         *)
(***************************************************************************)
Dict(f) == [dict |-> f]

IsDict(v) == DOMAIN v = {"dict"}

Keys(v) == DOMAIN v.dict

\* dict.update / item assignment: the entries of g override those of f.
Update(v, g) == Dict(g @@ v.dict)

EmptyDict == Dict(<<>>)

\* The payloads that arrive on MQTT_TOPIC, as the text on the wire.
Payloads ==
    { "{\"Idling\": 10}", "{\"Idling\": 90}", "{\"Fuel\": 5}", "17", "{\"Idling\":" }

\* json.loads(msg.payload.decode()): the parsed value, or an exception.
json_loads(p) ==
    CASE p = "{\"Idling\": 10}" -> [ok |-> TRUE, value |-> Dict([Idling |-> [n |-> 10]])]
      [] p = "{\"Idling\": 90}" -> [ok |-> TRUE, value |-> Dict([Idling |-> [n |-> 90]])]
      [] p = "{\"Fuel\": 5}"    -> [ok |-> TRUE, value |-> Dict([Fuel |-> [n |-> 5]])]
      [] p = "17"               -> [ok |-> TRUE, value |-> [num |-> 17]]
      [] OTHER                  -> [ok |-> FALSE, value |-> EmptyDict]

\* model_package["features"] and model_package["labels"] of a loaded model.
feature_columns == <<"Idling">>

anomaly_labels == <<"HighIdling", "LowFuel">>

VARIABLES
    message_queue,  \* queue.Queue(): references, oldest first
    latest_data,    \* reference held by the global latest_data (0: the initial {})
    anomaly_model,  \* TRUE: the keras model loaded; FALSE: anomaly_model is None
    heap,           \* heap[ref]: current value of the object json.loads created
    original,       \* original[ref]: that object's value when it was enqueued
    received,       \* payloads on_message has been called with, in order
    sub,            \* subscriber loop: "loop" or "dead"
    pc,             \* batch_processor's position (see the actions)
    batch,          \* batch_processor's local list batch (references)
    alerts,         \* alerts still to publish in the for loop of line 122
    batches,        \* every non-empty batch the drain loop produced, in order
    inserts,        \* every batch collection.insert_many was called with, in order
    snap,           \* message_queue as it was when this tick's drain began
    late,           \* references enqueued since this tick's drain began
    tick            \* what this tick has done so far to its collaborators

\* The prediction endpoint and its client (POST /predict-task-time).
VARIABLES
    task_time_pipeline,  \* TRUE: the pipeline loaded; FALSE: task_time_pipeline is None
    request,             \* the body of the POST being handled, or NoRequest
    response,            \* the answer of predict_task_time_api, or NoResponse
    estimated_time       \* what the client's predict_task_time returned, or NotReturned

\* The variables of the ingestion pipeline.
pipeline == << message_queue, latest_data, anomaly_model, heap, original, received,
               sub, pc, batch, alerts, batches, inserts, snap, late, tick >>

\* The variables of the prediction endpoint and its client.
api == << task_time_pipeline, request, response, estimated_time >>

vars == << message_queue, latest_data, anomaly_model, heap, original, received,
           sub, pc, batch, alerts, batches, inserts, snap, late, tick,
           task_time_pipeline, request, response, estimated_time >>

\* Python's None.
None == [none |-> TRUE]

NoRequest == [kind |-> "none", value |-> None]

\* predict_task_time has not been called.
NotCalled == [called |-> FALSE]

NoResponse == [status |-> 0, json |-> None, prediction |-> NotCalled]

NotReturned == [returned |-> FALSE]

NoTick == [insert |-> "none", detect |-> "none", pubs |-> <<>>]

\* No request has been posted yet.
ApiIdle ==
    /\ request = NoRequest
    /\ response = NoResponse
    /\ estimated_time = NotReturned

\* The ingestion pipeline after the module has been loaded (lines 36-50).
PipelineInit ==
    /\ message_queue = <<>>
    /\ latest_data = 0
    /\ anomaly_model \in BOOLEAN
    /\ heap = <<>>
    /\ original = <<>>
    /\ received = <<>>
    /\ sub = "loop"
    /\ pc = "sleep"
    /\ batch = <<>>
    /\ alerts = <<>>
    /\ batches = <<>>
    /\ inserts = <<>>
    /\ snap = <<>>
    /\ late = {}
    /\ tick = NoTick

\* The ingestion pipeline from its start; the prediction endpoint, which shares
\* no state with it, has its pipeline loaded and takes no request.
Init ==
    /\ PipelineInit
    /\ task_time_pipeline = TRUE
    /\ ApiIdle

\* The object a reference denotes; reference 0 is the {} of line 37.
Deref(r) == IF r = 0 THEN EmptyDict ELSE heap[r]

\* The drain loop of this tick has evaluated message_queue.empty() at least once.
DrainBegun == pc # "sleep" /\ ~(pc = "empty" /\ batch = <<>>)

(***************************************************************************)
(* Subscriber thread: on_message, lines 74-80.                             *)
(***************************************************************************)

\* A queue that holds one element and drops a put made while it is full.
PutDrop(q, r) == IF q = <<>> THEN Append(q, r) ELSE q

\* A LIFO queue: put at the front.
PutFront(q, r) == << r >> \o q

\* queue.Queue.put on the unbounded FIFO of line 36.
Put(q, r) == Append(q, r)

\* A queue made with maxsize 1: put waits while the queue holds an element.
PutWaitsForRoom(q, at) == q = <<>>

\* The accumulator keeps the queue's mutex from the drain to the cache write:
\* put waits while batch_processor is at one of the dispatch steps.
PutWaitsForDispatch(q, at) == at \in { "sleep", "empty", "get", "ifbatch" }

\* Does message_queue.put(data) of line 78 return with the queue q while
\* batch_processor is at line at: queue.Queue() of line 36 has no maxsize, and
\* batch_processor holds the queue's mutex only inside empty() and get().
PutReturns(q, at) == TRUE

\* No except clause: the parse error leaves on_message and ends loop_forever.
on_message_raises == "dead"

\* Where the subscriber loop is after the except clause of lines 79-80 ran.
on_message_except == "loop"

on_message(p) ==
    /\ sub = "loop"
    /\ Len(received) < MaxMsgs
    /\ received' = Append(received, p)
    /\ LET r == json_loads(p)
           ref == Len(heap) + 1
       IN  IF r.ok
           THEN /\ PutReturns(message_queue, pc)
                /\ heap' = Append(heap, r.value)
                /\ original' = Append(original, r.value)
                /\ message_queue' = Put(message_queue, ref)
                /\ late' = IF DrainBegun THEN late \cup {ref} ELSE late
                /\ sub' = "loop"
           ELSE /\ sub' = on_message_except
                /\ UNCHANGED << heap, original, message_queue, late >>
    /\ UNCHANGED << latest_data, anomaly_model, pc, batch, alerts, batches,
                    inserts, snap, tick >>
    /\ UNCHANGED api

(***************************************************************************)
(* Accumulator thread: batch_processor, lines 100-128.  pc names the line  *)
(* the thread is about to execute:                                         *)
(*   "sleep" 104, "empty" 107, "get" 108, "ifbatch" 110, "insert" 113,     *)
(*   "ifmodel" 119, "detect" 121, "publish" 122-124, "cache" 128;          *)
(*   "crashed": an exception left batch_processor and the thread ended.    *)
(***************************************************************************)

\* Lines 104-105: time.sleep(10) returns and batch = [].
Wake ==
    /\ pc = "sleep"
    /\ pc' = "empty"
    /\ batch' = <<>>
    /\ alerts' = <<>>
    /\ snap' = <<>>
    /\ late' = {}
    /\ tick' = NoTick
    /\ UNCHANGED << message_queue, latest_data, anomaly_model, heap, original,
                    received, sub, batches, inserts >>
    /\ UNCHANGED api

\* "while message_queue:" in place of the empty() test: a Queue object is
\* always true, so the loop goes on to get() whatever the queue holds.
empty_by_truth(q) == FALSE

\* "if message_queue.empty()" answered True whatever the queue holds: the
\* drain loop is never entered.
empty_always(q) == TRUE

\* Line 107: message_queue.empty().
empty(q) == q = <<>>

\* Line 107: while not message_queue.empty().
CheckEmpty ==
    /\ pc = "empty"
    /\ pc' = IF empty(message_queue) THEN "ifbatch" ELSE "get"
    /\ snap' = IF batch = <<>> THEN message_queue ELSE snap
    /\ UNCHANGED << message_queue, latest_data, anomaly_model, heap, original,
                    received, sub, batch, alerts, batches, inserts, late, tick >>
    /\ UNCHANGED api

\* Line 108: batch.append(message_queue.get()); get() blocks on an empty queue.
Get ==
    /\ pc = "get"
    /\ message_queue # <<>>
    /\ batch' = Append(batch, Head(message_queue))
    /\ message_queue' = Tail(message_queue)
    /\ pc' = "empty"
    /\ UNCHANGED << latest_data, anomaly_model, heap, original, received, sub,
                    alerts, batches, inserts, snap, late, tick >>
    /\ UNCHANGED api

\* The check of line 110 left out: every tick dispatches.
NotBatchNever(b) == FALSE

\* Line 110: the truth value of "not batch".
NotBatch(b) == b = <<>>

\* Lines 110-111: if not batch: continue.
IfBatch ==
    /\ pc = "ifbatch"
    /\ pc' = IF NotBatch(batch) THEN "sleep" ELSE "insert"
    /\ batches' = IF batch = <<>> THEN batches ELSE Append(batches, batch)
    /\ UNCHANGED << message_queue, latest_data, anomaly_model, heap, original,
                    received, sub, batch, alerts, inserts, snap, late, tick >>
    /\ UNCHANGED api

\* Does the JSON value v (a dict) hold key k.
Has(v, k) == IsDict(v) /\ k \in Keys(v)

\* pymongo's insert_many gives a document that has no "_id" a new ObjectId,
\* in place; lines 85-86 and 223-228 deal with the ObjectId it leaves behind.
AddId(v, r) == IF Has(v, "_id") THEN v ELSE Update(v, "_id" :> [oid |-> r])

\* Index of the first element of b that is not a dict (Len(b) + 1 if none):
\* insert_many raises TypeError there, having given "_id" to those before it.
FirstNonDict(h, b) ==
    LET bad == { i \in 1..Len(b) : ~IsDict(h[b[i]]) }
    IN  IF bad = {} THEN Len(b) + 1 ELSE CHOOSE i \in bad : \A j \in bad : i <= j

\* The heap after collection.insert_many(batch) has walked the documents.
insert_many(h, b) ==
    LET stop == FirstNonDict(h, b)
        done == { b[i] : i \in 1..(stop - 1) }
    IN  [r \in DOMAIN h |-> IF r \in done THEN AddId(h[r], r) ELSE h[r]]

\* The insert failure ends the tick: the rest of the loop body is skipped.
insert_skips_tick == "sleep"

\* A failed insert_many is tried again.
insert_retries == "insert"

\* Where batch_processor goes after the except clause of lines 116-117.
insert_except == "ifmodel"

\* Lines 113-117: the persistence call; stored tells whether the store took it.
Insert(stored) ==
    /\ pc = "insert"
    /\ heap' = insert_many(heap, batch)
    /\ inserts' = Append(inserts, batch)
    /\ LET ok == stored /\ FirstNonDict(heap, batch) > Len(batch)
       IN  /\ tick' = [tick EXCEPT !.insert = IF ok THEN "ok" ELSE "fail"]
           /\ pc' = IF ok THEN "ifmodel" ELSE insert_except
    /\ UNCHANGED << message_queue, latest_data, anomaly_model, original, received,
                    sub, batch, alerts, batches, snap, late >>
    /\ UNCHANGED api

\* The check of line 119 left out: the scorer is called with no model.
ModelLoadedAlways(m) == TRUE

\* Line 119: the truth value of anomaly_model (None is false).
ModelLoaded(m) == m

\* Line 119: if anomaly_model.
IfModel ==
    /\ pc = "ifmodel"
    /\ pc' = IF ModelLoaded(anomaly_model) THEN "detect" ELSE "cache"
    /\ UNCHANGED << message_queue, latest_data, anomaly_model, heap, original,
                    received, sub, batch, alerts, batches, inserts, snap, late,
                    tick >>
    /\ UNCHANGED api

(***************************************************************************)
(* detect_anomalies_batch, lines 131-144.                                  *)
(***************************************************************************)

NaN == [nan |-> TRUE]

\* Lines 132-133: pd.DataFrame(batch) and df[feature_columns] succeed when every
\* record is a dict and every feature column is a key of at least one record.
Scorable(h, b) ==
    /\ \A i \in 1..Len(b) : IsDict(h[b[i]])
    /\ \A c \in 1..Len(feature_columns) :
           \E i \in 1..Len(b) : Has(h[b[i]], feature_columns[c])

\* A record's row of input_data: a feature it lacks is NaN in the frame.
Row(v) ==
    [c \in 1..Len(feature_columns) |->
        IF Has(v, feature_columns[c]) THEN v.dict[feature_columns[c]] ELSE NaN]

\* anomaly_model.predict on one row, in percent: a stand-in for the network,
\* which scores HighIdling by the Idling feature and gives NaN for a NaN input.
model_predict(row) ==
    IF row[1] = NaN THEN << NaN, NaN >> ELSE << row[1], [n |-> 10] >>

\* Line 135: predictions >= 0.5, in percent.
Threshold == 50

AtLeastHalf(x) == x # NaN /\ x.n >= Threshold

\* Lines 139-140: dict(zip(anomaly_labels, map(bool, pred))).
anomaly_flags(v) ==
    LET pred == model_predict(Row(v))
    IN  [l \in { anomaly_labels[i] : i \in 1..Len(anomaly_labels) } |->
            LET i == CHOOSE j \in 1..Len(anomaly_labels) : anomaly_labels[j] = l
            IN  [b |-> AtLeastHalf(pred[i])]]

\* The check of line 141 left out: every record is put in the result.
AnyFlagAlways(v) == TRUE

\* Line 141: any(anomaly_flags.values()).
AnyFlag(v) == \E l \in DOMAIN anomaly_flags(v) : anomaly_flags(v)[l].b

\* Line 142: record.update(anomaly_flags), on the record itself.
Flag(v) == Update(v, anomaly_flags(v))

\* No except clause: the scoring error leaves batch_processor.
detect_raises == "crashed"

\* One try around scoring and the cache write: a scoring error skips line 128.
detect_skips_cache == "sleep"

\* Where batch_processor goes after the except clause of lines 125-126.
detect_except == "cache"

\* Lines 121 and 131-144; predicted tells whether anomaly_model.predict returned
\* (it cannot when anomaly_model is None).  tick.detect is "frame" when lines
\* 132-133 raised, "raise" when predict did, "ok" when the call returned.
Detect(predicted) ==
    /\ pc = "detect"
    /\ IF anomaly_model /\ predicted /\ Scorable(heap, batch)
       THEN LET hit == SelectSeq(batch, LAMBDA r : AnyFlag(heap[r]))
                hits == { hit[i] : i \in 1..Len(hit) }
            IN  /\ heap' = [r \in DOMAIN heap |->
                               IF r \in hits THEN Flag(heap[r]) ELSE heap[r]]
                /\ alerts' = hit
                /\ tick' = [tick EXCEPT !.detect = "ok"]
                /\ pc' = IF hit = <<>> THEN "cache" ELSE "publish"
       ELSE /\ tick' = [tick EXCEPT !.detect =
                         IF Scorable(heap, batch) THEN "raise" ELSE "frame"]
            /\ pc' = detect_except
            /\ UNCHANGED << heap, alerts >>
    /\ UNCHANGED << message_queue, latest_data, anomaly_model, original, received,
                    sub, batch, batches, inserts, snap, late >>
    /\ UNCHANGED api

\* detect_anomalies_batch of ml_model.py, lines 15-38, on a batch of dicts: the
\* list it returns.  It is the function of app.py with the KeyError of
\* df[feature_columns] caught (lines 17-21), which returns [].
ml_model_detect_anomalies_batch(h, b) ==
    IF Scorable(h, b) THEN SelectSeq(b, LAMBDA r : AnyFlag(h[r])) ELSE <<>>

(***************************************************************************)
(* publish_alert, lines 83-96, called from the loop of lines 122-124.      *)
(***************************************************************************)

\* str(ObjectId).
Str(x) == IF DOMAIN x = {"oid"} THEN [s |-> x.oid] ELSE x

\* Lines 85-86: message["_id"] = str(message["_id"]), on the record itself.
StrId(v) == IF Has(v, "_id") THEN Update(v, "_id" :> Str(v.dict["_id"])) ELSE v

\* json.dumps(message): the text, or TypeError when a value is an ObjectId.
json_dumps(v) ==
    IF \E k \in Keys(v) : DOMAIN v.dict[k] = {"oid"}
    THEN [ok |-> FALSE, text |-> EmptyDict]
    ELSE [ok |-> TRUE, text |-> v]

\* No except clause in publish_alert: the error reaches line 125 and the
\* alerts after this one are skipped.
publish_alert_raises(rest) == "cache"

\* The except clause of publish_alert stores the batch again, to keep the
\* record of the alert that was not sent.
publish_alert_stores_again(rest) == "insert"

\* Where the loop of line 122 is after the except clause of lines 95-96 ran
\* for one alert, rest being the alerts after it.
publish_alert_except(rest) == IF rest = <<>> THEN "cache" ELSE "publish"

\* One turn of the loop of lines 122-124; connected tells whether
\* alert_client.connect and publish went through.
Publish(connected) ==
    /\ pc = "publish"
    /\ alerts # <<>>
    /\ LET r == Head(alerts)
           message == StrId(heap[r])
           dumped == json_dumps(message)
           sent == connected /\ dumped.ok
       IN  /\ heap' = [heap EXCEPT ![r] = message]
           /\ tick' = [tick EXCEPT !.pubs =
                         Append(@, [ref |-> r, payload |-> dumped.text, sent |-> sent])]
           /\ pc' = IF sent
                    THEN IF Tail(alerts) = <<>> THEN "cache" ELSE "publish"
                    ELSE publish_alert_except(Tail(alerts))
    /\ alerts' = Tail(alerts)
    /\ UNCHANGED << message_queue, latest_data, anomaly_model, original, received,
                    sub, batch, batches, inserts, snap, late >>
    /\ UNCHANGED api

\* batch[0] in place of batch[-1].
First(b) == b[1]

\* Line 128: batch[-1].
Last(b) == b[Len(b)]

\* Line 128: latest_data = batch[-1]; IndexError on an empty batch.
Cache ==
    /\ pc = "cache"
    /\ latest_data' = IF batch = <<>> THEN latest_data ELSE Last(batch)
    /\ pc' = IF batch = <<>> THEN "crashed" ELSE "sleep"
    /\ UNCHANGED << message_queue, anomaly_model, heap, original, received, sub,
                    batch, alerts, batches, inserts, snap, late, tick >>
    /\ UNCHANGED api

batch_processor ==
    \/ Wake
    \/ CheckEmpty
    \/ Get
    \/ IfBatch
    \/ \E stored \in BOOLEAN : Insert(stored)
    \/ IfModel
    \/ \E predicted \in BOOLEAN : Detect(predicted)
    \/ \E connected \in BOOLEAN : Publish(connected)
    \/ Cache

(***************************************************************************)
(* GET /latest, lines 223-235.                                             *)
(***************************************************************************)

\* convert_objectid: an ObjectId value of a dict becomes its string.
convert_objectid(v) ==
    IF IsDict(v) THEN Dict([k \in Keys(v) |-> Str(v.dict[k])]) ELSE v

\* What get_latest answers in the current state.
get_latest == convert_objectid(Deref(latest_data))

\* convert_objectid rewriting the dict it is given: data[k] = str(v).
convert_objectid_inplace(h, r) ==
    IF r = 0 \/ ~IsDict(h[r]) THEN h ELSE [h EXCEPT ![r] = convert_objectid(h[r])]

\* The heap after convert_objectid(latest_data): the comprehension of line 227
\* builds a new dict and leaves the one it reads as it is.
convert_objectid_heap(h, r) == h

\* A GET /latest request, lines 231-235: it reads latest_data and answers
\* get_latest; no variable of the program is assigned.
GetLatest ==
    /\ heap' = convert_objectid_heap(heap, latest_data)
    /\ UNCHANGED << message_queue, latest_data, anomaly_model, original, received,
                    sub, pc, batch, alerts, batches, inserts, snap, late, tick >>
    /\ UNCHANGED api

(***************************************************************************)
(* POST /predict-task-time: predict_task_time_api of app.py, lines 249-302,*)
(* and its client TaskTimePredictionClient of simulation-2.py.  A JSON     *)
(* string is [str |-> s]; a duration is a whole number of thousandths of a *)
(* minute before rounding and of hundredths after it.                      *)
(***************************************************************************)

\* Lines 186-199.
required_features ==
    << "Engine_Hours", "Fuel_Used_L", "Load_Cycles", "Idling_Time_min",
       "Seatbelt_Status", "Safety_Alert", "Operator_ID", "Weather_Temp_C",
       "Weather_Rainfall_mm", "Weather_Wind_kmph", "Terrain", "Task_Type" >>

\* The key sets of the feature dicts a request carries: the required features
\* less at most MaxMissing of them, and no key at all.
FeatureSets ==
    LET all == { required_features[i] : i \in 1..Len(required_features) }
    IN  { all \ gone : gone \in { S \in SUBSET all : Cardinality(S) <= MaxMissing } }
            \cup { {} }

\* The feature dicts a request carries, with a Terrain and a Task_Type the
\* server knows ("Rocky", "Loading") or does not ("Hilly", "Excavation", which
\* the client's task_scenarios hold).
FeatureDicts ==
    { Dict([k \in S |->
               CASE k = "Terrain"   -> [str |-> c[1]]
                 [] k = "Task_Type" -> [str |-> c[2]]
                 [] OTHER           -> [n |-> 1]]) :
        S \in FeatureSets,
        c \in { << "Rocky", "Loading" >>, << "Hilly", "Excavation" >> } }

\* The bodies of the requests: "absent" is a POST with no body and no JSON
\* content type, "empty" one with Content-Type: application/json and a body
\* of length 0, "null" the JSON text null; "json" carries a dict.
Bodies ==
    { [kind |-> k, value |-> None] : k \in { "absent", "empty", "null" } }
        \cup { [kind |-> "json", value |-> v] : v \in FeatureDicts }

\* flask's request.json, line 274.  A body with the JSON content type that
\* does not parse makes get_json raise BadRequest; a body without that content
\* type makes it return None (Flask before 2.1) or raise UnsupportedMediaType
\* (Flask 2.1 and later): unsupported_raises says which.
request_json(body, unsupported_raises) ==
    CASE body.kind = "empty"  -> [ok |-> FALSE, value |-> None]
      [] body.kind = "absent" -> [ok |-> ~unsupported_raises, value |-> None]
      [] OTHER                -> [ok |-> TRUE, value |-> body.value]

\* Python's truth value of a parsed body: None and {} are false.
Truthy(v) == v # None /\ v # EmptyDict

\* Lines 201-204: the required features that are not in features.
missing_features(features) ==
    SelectSeq(required_features, LAMBDA f : ~Has(features, f))

\* validate_prediction_input, lines 176-220: an unknown Terrain or Task_Type
\* is logged (lines 210-218) and changes nothing in the answer.
validate_prediction_input(features) ==
    IF missing_features(features) # <<>>
    THEN [is_valid |-> FALSE, error_message |-> [str |-> "Missing required features"]]
    ELSE [is_valid |-> TRUE, error_message |-> None]

\* What task_time_pipeline.predict gives, in thousandths of a minute.
Prediction == 42505

\* predict_task_time, lines 147-173: None without a pipeline or when predict
\* raises (predict_raises), else float(prediction[0]).
predict_task_time(input_features, loaded, predict_raises) ==
    IF ~loaded THEN None
    ELSE IF predict_raises THEN None
    ELSE [n |-> Prediction]

\* round(x, 2) of a duration: thousandths to the nearest hundredth.
round2(x) == (x + 5) \div 10

\* jsonify({"error": text}), status.
error_response(status, text, prediction) ==
    [status |-> status, json |-> Dict("error" :> [str |-> text]),
     prediction |-> prediction]

\* Lines 291-298: the body of the 200 answer.
ok_response(prediction, features) ==
    [status |-> 200,
     json |-> Dict(  "estimated_time_minutes" :> [n |-> round2(prediction.n)]
                  @@ "estimated_time_hours" :> [n |-> round2(prediction.n \div 60)]
                  @@ "input_features" :> features),
     prediction |-> prediction]

\* predict_task_time_api, lines 249-302.  The field prediction records what
\* predict_task_time returned, NotCalled when it was not called.
predict_task_time_api(body, loaded, unsupported_raises, predict_raises) ==
    LET parsed == request_json(body, unsupported_raises)
    IN  IF ~parsed.ok
        THEN error_response(500, "Prediction failed: HTTPException", NotCalled)
        ELSE IF ~Truthy(parsed.value)
        THEN error_response(400, "No JSON data provided", NotCalled)
        ELSE IF ~validate_prediction_input(parsed.value).is_valid
        THEN error_response(400, "Missing required features", NotCalled)
        ELSE LET prediction ==
                     predict_task_time(parsed.value, loaded, predict_raises)
             IN  IF prediction = None
                 THEN error_response(500, "Prediction failed", prediction)
                 ELSE ok_response(prediction, parsed.value)

\* simulation-2.py, line 96: result.get("estimated_time").
result_get(result) ==
    IF "estimated_time" \in Keys(result) THEN result.dict["estimated_time"] ELSE None

\* simulation-2.py, lines 94-99: what predict_task_time returns for an answer.
client_predict_task_time(resp) ==
    IF resp.status = 200 THEN result_get(resp.json) ELSE None

\* simulation-2.py, lines 90-92 (or any other HTTP client): a POST arrives.
Post(body) ==
    /\ request = NoRequest
    /\ request' = body
    /\ UNCHANGED << task_time_pipeline, response, estimated_time >>
    /\ UNCHANGED pipeline

\* The server handles the request and answers.
Respond(unsupported_raises, predict_raises) ==
    /\ request # NoRequest
    /\ response = NoResponse
    /\ estimated_time = NotReturned
    /\ response' = predict_task_time_api(request, task_time_pipeline,
                                         unsupported_raises, predict_raises)
    /\ UNCHANGED << task_time_pipeline, request, estimated_time >>
    /\ UNCHANGED pipeline

\* simulation-2.py, lines 94-99: the client has the answer and returns.
ClientReturns ==
    /\ response # NoResponse
    /\ estimated_time = NotReturned
    /\ estimated_time' = [returned |-> TRUE, value |-> client_predict_task_time(response)]
    /\ UNCHANGED << task_time_pipeline, request, response >>
    /\ UNCHANGED pipeline

\* simulation-2.py, lines 101-103: requests.post raised (no connection, or no
\* answer within the timeout) and the client returns None.
RequestFails ==
    /\ request # NoRequest
    /\ response = NoResponse
    /\ estimated_time = NotReturned
    /\ estimated_time' = [returned |-> TRUE, value |-> None]
    /\ UNCHANGED << task_time_pipeline, request, response >>
    /\ UNCHANGED pipeline

\* The prediction endpoint from its start, the pipeline loaded or not (lines
\* 53-62); the ingestion pipeline, which shares no state with it, stands still.
ApiInit ==
    /\ PipelineInit
    /\ task_time_pipeline \in BOOLEAN
    /\ ApiIdle

ApiNext ==
    \/ \E body \in Bodies : Post(body)
    \/ \E unsupported_raises, predict_raises \in BOOLEAN :
           Respond(unsupported_raises, predict_raises)
    \/ ClientReturns
    \/ RequestFails

ApiSpec == ApiInit /\ [][ApiNext]_vars

Next ==
    \/ \E p \in Payloads : on_message(p)
    \/ batch_processor
    \/ GetLatest

Spec == Init /\ [][Next]_vars

\* The accumulator thread keeps being scheduled and time.sleep returns.
LiveSpec == Spec /\ WF_vars(batch_processor)

(***************************************************************************)
(* Properties.                                                             *)
(***************************************************************************)

\* The elements of a sequence.
Range(q) == { q[i] : i \in 1..Len(q) }

\* How often r occurs in q.
Count(q, r) == Cardinality({ i \in 1..Len(q) : q[i] = r })

\* The drain loop is running or has just ended: batch is not yet in batches.
Draining == pc \in { "empty", "get", "ifbatch" }

\* This tick's drain loop has ended (message_queue.empty() returned True).
DrainOver == pc \in { "ifbatch", "insert", "ifmodel", "detect", "publish", "cache" }

\* Total number of occurrences of r in the batches produced so far.
InBatches(r) ==
    LET n[i \in 0..Len(batches)] ==
            IF i = 0 THEN 0 ELSE n[i - 1] + Count(batches[i], r)
    IN  n[Len(batches)]

\* References in no batch produced so far, in order of arrival.
Undrained ==
    LET left == { r \in 1..Len(heap) : InBatches(r) = 0 }
    IN  [i \in 1..Cardinality(left) |->
            CHOOSE r \in left : Cardinality({ x \in left : x < r }) = i - 1]

\* C1: under every interleaving of on_message with the drain loop, every Event
\* put on message_queue is in exactly one batch, or still in the queue: none
\* is lost and none is duplicated.
C1_NoLossNoDup ==
    \A r \in 1..Len(heap) :
        Count(message_queue, r) + InBatches(r)
            + (IF Draining THEN Count(batch, r) ELSE 0) = 1

\* C1 witness: a batch was produced that holds an Event enqueued while the
\* drain loop ran, and a further Event waits in the queue.
C1_Witness ==
    /\ batches # <<>>
    /\ late \cap Range(batch) # {}
    /\ message_queue # <<>>

\* C2: the drain is atomic: the batch is the queue contents at the instant the
\* drain began, and no Event enqueued after that instant is in this tick's batch.
C2_AtomicDrain ==
    DrainOver => (batch = snap /\ late \cap Range(batch) = {})

\* C3: N enqueues followed by a drain with no enqueue in between: the batch
\* holds exactly those N Events, unchanged, in arrival order, and the queue is
\* empty; with nothing enqueued (N = 0) the batch is empty.
C3_DrainFifo ==
    (pc = "ifbatch" /\ late = {}) =>
        /\ batch = Undrained
        /\ message_queue = <<>>
        /\ \A i \in 1..Len(batch) : heap[batch[i]] = original[batch[i]]

\* C3 witness: a second drain, undisturbed, has produced a batch of two Events.
C3_Witness ==
    /\ pc = "ifbatch"
    /\ late = {}
    /\ Len(batch) >= 2
    /\ batches # <<>>

\* C4: a tick whose drain yields an empty batch calls neither insert_many nor
\* detect_anomalies_batch, publishes no alert and goes back to sleep, and
\* latest_data changes only on a tick with a non-empty batch.
C4_EmptyTickNoOp ==
    /\ [](batch = <<>> => (pc \in { "sleep", "empty", "get", "ifbatch" }
                            /\ tick = NoTick))
    /\ [][latest_data' # latest_data => batch # <<>>]_vars

\* C4 witness: an empty tick has ended after an earlier tick filled the cache.
C4_Witness ==
    /\ pc = "sleep"
    /\ batch = <<>>
    /\ latest_data # 0

\* This tick has run its dispatch steps to the end (or the thread has ended).
TickEnded == pc \in { "cache", "sleep", "crashed" }

\* The Events of this tick's batch for which the scorer gives a true flag.
Flagged == SelectSeq(batch, LAMBDA r : AnyFlag(original[r]))

\* The records publish_alert was called with on this tick, in order.
Published == [i \in 1..Len(tick.pubs) |-> tick.pubs[i].ref]

\* C5, state part: a tick whose insert_many failed has, with a model loaded,
\* still called the scorer and, if that returned, made a publish attempt for
\* every flagged Event; the thread has not ended.
C5_State ==
    (tick.insert = "fail" /\ TickEnded) =>
        /\ pc # "crashed"
        /\ anomaly_model => tick.detect # "none"
        /\ tick.detect = "ok" => Published = Flagged

\* C5: a failed insert_many on a non-empty batch does not keep the same tick
\* from scoring the batch and publishing its alerts, and the loop goes on:
\* the next tick begins.
C5_InsertFailureContained ==
    /\ []C5_State
    /\ (tick.insert = "fail") ~> (pc = "empty" /\ tick = NoTick)

\* C5 witness: insert_many failed and the same tick sent an alert.
C5_Witness ==
    /\ tick.insert = "fail"
    /\ pc = "sleep"
    /\ \E i \in 1..Len(tick.pubs) : tick.pubs[i].sent

\* C6: GET /latest answers {} until a non-empty batch has been processed;
\* after a tick has processed batch B the cache holds the last Event of B
\* with the fields it had when it was drained, nothing added or changed.
C6_CacheHoldsOriginal ==
    pc = "sleep" =>
        IF batches = <<>>
        THEN get_latest = EmptyDict
        ELSE LET B == batches[Len(batches)]
             IN  Deref(latest_data) = original[B[Len(B)]]

\* C7: with a model loaded, publish_alert is called exactly once for each
\* Event with a true flag, in batch order, and for no other; the payload
\* of each alert sent is the Event's fields plus its flag entries.
C7_AlertsExact ==
    (tick.detect = "ok" /\ TickEnded) =>
        /\ Published = Flagged
        /\ \A i \in 1..Len(tick.pubs) :
               LET event == original[tick.pubs[i].ref]
               IN  tick.pubs[i].sent =>
                       tick.pubs[i].payload = Update(event, anomaly_flags(event))

\* C8: a publish that fails is contained in publish_alert: every flagged
\* Event of the batch still gets its own publish attempt.
C8_PublishIndependent ==
    (tick.detect = "ok" /\ TickEnded) => Published = Flagged

\* C8 witness: the publish of the first alert failed and the second alert of
\* the batch was attempted all the same.
C8_Witness ==
    /\ pc = "sleep"
    /\ Len(tick.pubs) >= 2
    /\ ~tick.pubs[1].sent

\* C9: whatever fails inside a tick, the thread never ends, every tick
\* returns to the sleep and the next tick starts.
C9_LoopSurvives ==
    /\ [](pc # "crashed")
    /\ []<>(pc = "sleep")
    /\ []<>(pc = "empty")

\* C9 witness: the thread is back at the sleep after a second non-empty tick
\* in which both insert_many and the scoring failed.
C9_Witness ==
    /\ pc = "sleep"
    /\ tick.insert = "fail"
    /\ tick.detect = "raise"
    /\ Len(batches) >= 2

\* The payloads received so far that json.loads accepts, in order.
Parsed == SelectSeq(received, LAMBDA p : json_loads(p).ok)

\* C10: a payload that does not parse enqueues nothing and on_message returns
\* normally, so later messages are handled; a payload that parses puts
\* exactly one Event, its parsed value, on message_queue.
C10_ParseOrDiscard ==
    /\ sub = "loop"
    /\ original = [i \in 1..Len(Parsed) |-> json_loads(Parsed[i]).value]
    /\ \A r \in 1..Len(Parsed) :
           Count(message_queue, r) + InBatches(r)
               + (IF Draining THEN Count(batch, r) ELSE 0) = 1

\* C10 witness: a malformed payload was discarded and a later message was
\* parsed and enqueued.
C10_Witness ==
    \E i, j \in 1..Len(received) :
        /\ i < j
        /\ ~json_loads(received[i]).ok
        /\ json_loads(received[j]).ok
        /\ message_queue # <<>>

\* A record that lacks at least one of the feature columns.
LacksFeature(v) ==
    IsDict(v) /\ \E c \in 1..Len(feature_columns) : ~Has(v, feature_columns[c])

\* Every element of this tick's batch was enqueued as a dict.
AllDicts == \A r \in Range(batch) : IsDict(original[r])

\* C11: scoring is per-record tolerant: when an Event of the batch lacks a
\* required feature (and predict itself does not fail) the scorer raises
\* nothing, leaves only such Events out, and the other Events that are
\* flagged are alerted.
C11_PerRecordTolerant ==
    ( /\ TickEnded
      /\ tick.detect \in { "ok", "frame" }
      /\ AllDicts
      /\ \E r \in Range(batch) : LacksFeature(original[r]) ) =>
        /\ tick.detect = "ok"
        /\ Published = Flagged
        /\ \A r \in Range(Published) : ~LacksFeature(original[r])

\* C12: detect_anomalies_batch on a batch in which every record lacks a
\* required feature returns an empty result and does not raise.
C12_AllMissingEmpty ==
    ( /\ tick.detect # "none"
      /\ AllDicts
      /\ \A r \in Range(batch) : LacksFeature(original[r]) ) =>
        /\ tick.detect = "ok"
        /\ alerts = <<>>
        /\ tick.pubs = <<>>

\* C13: with no model loaded the scorer is never called and nothing is
\* published or raised, and every non-empty tick still makes its persistence
\* call and sets latest_data to the last Event of its batch.
C13_ScoringDisabled ==
    ~anomaly_model =>
        /\ tick.detect = "none"
        /\ tick.pubs = <<>>
        /\ pc \notin { "detect", "publish", "crashed" }
        /\ (pc = "sleep" /\ batch # <<>>) =>
               /\ tick.insert # "none"
               /\ latest_data = batch[Len(batch)]

\* C13 witness: without a model, a tick with a batch of two Events has ended.
C13_Witness ==
    /\ ~anomaly_model
    /\ pc = "sleep"
    /\ Len(batch) >= 2
    /\ tick.insert = "ok"

\* C14: no record of a batch gains or changes a field through persistence,
\* scoring or publishing: every record keeps the fields it was enqueued with.
C14_BatchNeverMutated ==
    \A r \in 1..Len(heap) : heap[r] = original[r]

\* C15: a failure of scoring or publishing neither prevents nor undoes the
\* tick's persistence call, and whatever the outcomes a non-empty tick ends
\* by setting latest_data to the last Event of its batch.
C15_Independent ==
    /\ []((pc = "sleep" /\ batch # <<>>) =>
             /\ tick.insert \in { "ok", "fail" }
             /\ latest_data = batch[Len(batch)])
    /\ [][(pc # "sleep" /\ tick.insert # "none") =>
             (tick'.insert = tick.insert /\ inserts' = inserts)]_vars

\* C15 witness: the store took the batch, scoring then failed, and the tick
\* has ended.
C15_Witness ==
    /\ pc = "sleep"
    /\ tick.insert = "ok"
    /\ tick.detect = "raise"
    /\ latest_data = batch[Len(batch)]

\* C16: on a non-empty tick the persistence call is over before scoring
\* starts, every alert of the batch has had its publish before the cache is
\* written, and the cache write is the step that leads back to the sleep.
C16_StepOrder ==
    /\ []((pc \in { "detect", "publish" } \/ tick.detect # "none") =>
             tick.insert # "none")
    /\ [](pc = "cache" =>
             /\ alerts = <<>>
             /\ tick.detect = "ok" => Published = Flagged)
    /\ [][(pc # "sleep" /\ pc' = "sleep") =>
             \/ pc = "ifbatch" /\ batch = <<>>
             \/ pc = "cache" /\ latest_data' = batch[Len(batch)]]_vars

\* C16 witness: two alerts were published, after a failed insert, and the
\* cache write is next.
C16_Witness ==
    /\ pc = "cache"
    /\ tick.insert = "fail"
    /\ Len(tick.pubs) >= 2

\* Total number of occurrences of r in the batches handed to insert_many.
InInserts(r) ==
    LET n[i \in 0..Len(inserts)] ==
            IF i = 0 THEN 0 ELSE n[i - 1] + Count(inserts[i], r)
    IN  n[Len(inserts)]

\* C17: insert_many is called exactly once for every non-empty batch, with
\* the whole batch; a failed call is not repeated on that or a later tick,
\* and no Event is handed to it twice.
C17_OneInsertPerBatch ==
    /\ inserts = IF pc = "insert"
                 THEN SubSeq(batches, 1, Len(batches) - 1)
                 ELSE batches
    /\ \A r \in 1..Len(heap) : InInserts(r) <= 1

\* C17 witness: a second batch was handed to insert_many after the call for
\* the first one, which held a record that is not a document, had failed.
C17_Witness ==
    /\ Len(inserts) >= 2
    /\ \E r \in Range(inserts[1]) : ~IsDict(original[r])

\* C18, as claimed: latest_data never holds an Event of a batch whose
\* persistence call failed on that tick.
C18_NoFailedBatchInCache ==
    tick.insert = "fail" => latest_data \notin Range(batch)

\* C18, amended: a failed persistence call does not leave the cache stale:
\* the tick whose insert_many failed ends by setting latest_data to the last
\* Event of its batch, a batch that was drained from the queue.
C18_CacheFollowsFailedTick ==
    (pc = "sleep" /\ tick.insert = "fail") =>
        /\ latest_data = batch[Len(batch)]
        /\ batches # <<>>
        /\ batch = batches[Len(batches)]

\* C18 witness: a tick whose insert_many failed has ended, after an earlier
\* tick.
C18_Witness ==
    /\ pc = "sleep"
    /\ tick.insert = "fail"
    /\ Len(batches) >= 2

\* C19: latest_data is the initial {} or the last Event of a batch that was
\* drained: never an Event still in the queue, an element of a batch other
\* than its last, or a value that was not enqueued.
C19_CacheIsLastOfBatch ==
    \/ latest_data = 0
    \/ /\ latest_data \in 1..Len(heap)
       /\ latest_data \notin Range(message_queue)
       /\ \E i \in 1..Len(batches) :
              latest_data = batches[i][Len(batches[i])]

\* C19 witness: the cache holds the last Event of a batch of two while an
\* Event waits in the queue.
C19_Witness ==
    /\ latest_data # 0
    /\ message_queue # <<>>
    /\ \E i \in 1..Len(batches) :
           /\ Len(batches[i]) >= 2
           /\ latest_data = batches[i][Len(batches[i])]

\* C20: the accumulator is the only writer of the cache: neither the
\* reference latest_data nor the record it holds changes in any step but the
\* cache update of line 128: not in on_message, the persistence call,
\* scoring, publish_alert or a GET /latest.
C20_SoleWriter ==
    [][(latest_data' # latest_data \/ Deref(latest_data)' # Deref(latest_data)) =>
          (pc = "cache" /\ pc' = "sleep")]_vars

\* C20 witness: with the cache filled by an earlier tick, a later tick is in
\* its publish loop and has published one alert.
C20_Witness ==
    /\ latest_data # 0
    /\ pc = "publish"
    /\ tick.pubs # <<>>

\* C21: only field mappings enter the queue: a payload that is valid JSON but
\* not a mapping is dropped by on_message, so every Event ever enqueued, every
\* element of every batch, and every value of latest_data is a mapping.
C21_OnlyMappings ==
    /\ \A r \in 1..Len(heap) : IsDict(original[r])
    /\ \A r \in Range(batch) : IsDict(heap[r])
    /\ IsDict(Deref(latest_data))

Labels == Range(anomaly_labels)

\* The scorer gives the Event v a true flag for at least one label.
TrueFlag(v) == \E l \in Labels : anomaly_flags(v)[l].b

\* The Events of this tick's batch with at least one true flag, in batch order.
WithTrueFlag == SelectSeq(batch, LAMBDA r : TrueFlag(original[r]))

\* C23: when the scorer returns, its result is exactly the Events of the batch
\* with at least one true flag, in batch order, and what it attached to each
\* is a mapping from labels of anomaly_labels to booleans, one of them true;
\* the Events it does not return get nothing attached.  The scorer of
\* ml_model.py returns the same Events, and none when a column is missing.
C23_ScorerResult ==
    /\ [][(pc = "detect" /\ tick'.detect = "ok") =>
             /\ alerts' = WithTrueFlag
             /\ \A r \in Range(batch) :
                    LET added == Keys(heap'[r]) \ Keys(heap[r])
                    IN  IF r \in Range(alerts')
                        THEN /\ added \subseteq Labels
                             /\ \A l \in added : heap'[r].dict[l] \in [b : BOOLEAN]
                             /\ \E l \in added : heap'[r].dict[l].b
                        ELSE heap'[r] = heap[r]]_vars
    /\ []((pc = "detect" /\ AllDicts) =>
             ml_model_detect_anomalies_batch(heap, batch) =
                 IF Scorable(heap, batch) THEN WithTrueFlag ELSE <<>>)

\* C23 witness: the scorer has returned for a batch of three Events, of which
\* the first has a true flag, the second none and the third lacks the feature.
C23_Witness ==
    /\ tick.detect = "ok"
    /\ Len(batch) = 3
    /\ alerts = << batch[1] >>
    /\ ~TrueFlag(original[batch[2]])
    /\ LacksFeature(original[batch[3]])

\* C24: anomaly flags are never persisted: every record handed to
\* collection.insert_many has, at the call, exactly the fields of the Event
\* as enqueued; the scorer has not yet run on it and it carries no flag entry
\* that the Event did not have.
C24_FlagsNotPersisted ==
    pc = "insert" =>
        /\ tick.detect = "none"
        /\ \A r \in Range(batch) :
               /\ heap[r] = original[r]
               /\ \A l \in Labels : Has(heap[r], l) => Has(original[r], l)

\* C24 witness: a second batch is about to be handed to insert_many while a
\* record of the first batch carries the flags the scorer gave it.
C24_Witness ==
    /\ pc = "insert"
    /\ Len(batches) >= 2
    /\ \E r \in Range(batches[1]) : \E l \in Labels : Has(heap[r], l)

\* The Event r has left the queue for this tick's batch, and the tick has made
\* its persistence call and, with a model loaded, its call of the scorer.
Dispatched(r) ==
    /\ pc = "cache"
    /\ r \in Range(batch)
    /\ r \notin Range(message_queue)
    /\ InBatches(r) = 1
    /\ InInserts(r) = 1
    /\ anomaly_model => tick.detect # "none"

\* C25: with the accumulator thread scheduled, every Event put on
\* message_queue is eventually drained into a batch, and that batch reaches
\* the persistence call and the scorer: no Event stays in the queue for ever.
C25_EventuallyDrained ==
    \A r \in 1..MaxMsgs : (r \in Range(message_queue)) ~> Dispatched(r)

\* C25 witness: an Event that was put on the queue while an earlier tick was
\* at its dispatch steps has been drained by the next tick and dispatched.
C25_Witness ==
    /\ Len(batches) >= 2
    /\ \E r \in Range(batch) : r \notin late /\ Dispatched(r)

C27_GetNeverBlocks ==
    /\ pc = "get" => (message_queue # <<>> /\ ENABLED Get)
    /\ pc = "ifbatch" => (message_queue = <<>> \/ late \cap Range(message_queue) # {})

\* C27 witness: batch_processor is at get() for the second time on this tick,
\* for an Event that on_message put while the loop was running.
C27_Witness ==
    /\ pc = "get"
    /\ batch # <<>>
    /\ Head(message_queue) \in late

\* The request carries every required feature.
AllRequired(body) ==
    body.kind = "json" /\ missing_features(body.value) = <<>>

\* C28: the endpoint answers 400 when the JSON body is absent or empty or a
\* required feature is missing, an unknown Terrain or Task_Type alone never
\* being rejected; 500 whenever predict_task_time returned None; and 200 only
\* when every required feature is present and the model gave a value.
C28_StatusCodes ==
    response # NoResponse =>
        /\ ~AllRequired(request) =>
               (response.status = 400 /\ response.prediction = NotCalled)
        /\ AllRequired(request) => response.status \in { 200, 500 }
        /\ response.prediction = None => response.status = 500
        /\ (response.status = 200) <=>
               (AllRequired(request) /\ response.prediction \notin { None, NotCalled })

\* C29: whenever the server answers 200, the client's predict_task_time
\* returns the estimated time of that answer, a number and not None, so the
\* client reports a failed prediction only for another status or a failed
\* request.
C29_ClientGetsEstimate ==
    (estimated_time # NotReturned /\ response.status = 200) =>
        /\ estimated_time.value # None
        /\ estimated_time.value = response.json.dict["estimated_time_minutes"]

====
